---- MODULE Spec2Model ----
(***************************************************************************)
(* Movie recommender (src/app.py): the cached corpus load (load_data       *)
(* under st.cache_data), the ranking function get_recommendations, and     *)
(* the script main() with its slider, select boxes, search box and button. *)
(*                                                                         *)
(* Conventions.  A title is a sequence of one-character strings.  A data   *)
(* frame is the sequence of its titles, a matrix a sequence of rows; the   *)
(* code's 0-based position i is element i+1 of the sequence.  A score is   *)
(* an integer in units of 10^-5 (100000 is 1.0).  A Python value that may  *)
(* be None is a record [isNone, val].                                      *)
(***************************************************************************)
EXTENDS Integers, Sequences, FiniteSets, TLC

VARIABLES
    movies_pkl, similarity_pkl,
    cache, lock, pc, tmp, ret, reads,
    movies_df, similarity,
    n_recommendations, selected_movie, search_query, filtered_movies, message,
    caller, arg_title, arg_n, movie_index, movies_list, recommendations

diskVars == <<movies_pkl, similarity_pkl>>
cacheVars == <<cache, lock, pc, tmp, ret, reads>>
corpusVars == <<movies_df, similarity>>
widgetVars == <<n_recommendations, selected_movie, search_query, filtered_movies, message>>
callVars == <<caller, arg_title, arg_n, movie_index, movies_list, recommendations>>
vars == <<diskVars, cacheVars, corpusVars, widgetVars, callVars>>

(***************************************************************************)
(* Bounds of the model.                                                    *)
(***************************************************************************)
MaxM == 3
MaxN == 4
MaxMainM == 2
MaxQ == 1
MaxFileM == 2
NSessions == 2
MaxReads == 3

(***************************************************************************)
(* Program constants: the slider of main().                                *)
(***************************************************************************)
SliderMin == 3
SliderMax == 10
SliderDefault == 5

ScoreOne == 100 * 1000
Scores == {0, 33333, ScoreOne}

Min(a, b) == IF a < b THEN a ELSE b
Max(a, b) == IF a > b THEN a ELSE b

None == [isNone |-> TRUE, val |-> <<>>]
Some(v) == [isNone |-> FALSE, val |-> v]

(***************************************************************************)
(* Python list slicing s[start:stop] (step 1) on a 0-based list: negative  *)
(* bounds count from the end, and both are clamped to 0..len(s).           *)
(***************************************************************************)
SliceBound(len, b) == IF b < 0 THEN Max(len + b, 0) ELSE Min(b, len)

PySlice(s, start, stop) ==
    LET lo == SliceBound(Len(s), start)
        hi == SliceBound(Len(s), stop)
    IN  IF lo >= hi THEN <<>> ELSE SubSeq(s, lo + 1, hi)

(***************************************************************************)
(* list(enumerate(distances)): the pairs <<j, score>>, j from 0.           *)
(***************************************************************************)
Enumerate(distances) == [k \in 1..Len(distances) |-> <<k - 1, distances[k]>>]

(***************************************************************************)
(* sorted(pairs, reverse=True, key=lambda x: x[1]).  Python's sort is      *)
(* stable and stays stable under reverse=True: pairs of equal score keep   *)
(* their order in the input.  Each pair is inserted behind every pair      *)
(* already placed whose score is at least its own.                         *)
(***************************************************************************)
InsertPos(placed, x) == Cardinality({k \in 1..Len(placed) : placed[k][2] >= x[2]})

InsertDesc(placed, x) ==
    LET p == InsertPos(placed, x)
    IN  SubSeq(placed, 1, p) \o <<x>> \o SubSeq(placed, p + 1, Len(placed))

RECURSIVE SortedReverseUpTo(_, _)
SortedReverseUpTo(pairs, k) ==
    IF k = 0 THEN <<>> ELSE InsertDesc(SortedReverseUpTo(pairs, k - 1), pairs[k])

SortedReverse(pairs) == SortedReverseUpTo(pairs, Len(pairs))

(***************************************************************************)
(* f"{x:.2%}": the score as a percentage rounded to two decimals, kept as  *)
(* <<whole percent, hundredths>> ("33.33%" is <<33, 33>>).  No score of     *)
(* Scores lies halfway between two hundredths.                             *)
(***************************************************************************)
FormatPercent(score) ==
    LET hundredths == (score + 5) \div 10
    IN  <<hundredths \div 100, hundredths % 100>>

(***************************************************************************)
(* movies_df[movies_df['title'] == movie_title].index : the positions      *)
(* whose title equals the query exactly, and .index[0], the first of them. *)
(* The data frame carries the default index (label i at position i), so   *)
(* the label .index[0] is the position used on the matrix and by .iloc.    *)
(***************************************************************************)
MatchIndex(df, movie_title) == {i \in 0..(Len(df) - 1) : df[i + 1] = movie_title}

FirstIndex(S) == CHOOSE i \in S : \A j \in S : i <= j

(***************************************************************************)
(* The slice of the ranked row that get_recommendations keeps: [1:n+1],    *)
(* the ranked row without its head.                                        *)
(***************************************************************************)
\* Faulty variant: the head of the ranking is kept ([0:n]).
TopSliceFromHead(ranked, n) == PySlice(ranked, 0, n)

TopSlice(ranked, n) == PySlice(ranked, 1, n + 1)

(***************************************************************************)
(* get_recommendations once movie_index is known: the row, the ranking,    *)
(* the slice and the returned records.  An IndexError (the row is outside  *)
(* the matrix, or a ranked column is outside the data frame) is caught and *)
(* makes the result None.  index and list are the locals movie_index and   *)
(* movies_list.                                                            *)
(***************************************************************************)
Recommended(idx, df, sim, n) ==
    IF idx >= Len(sim)
    THEN [result |-> None, index |-> idx, list |-> <<>>]
    ELSE LET distances == sim[idx + 1]
             list == TopSlice(SortedReverse(Enumerate(distances)), n)
         IN  IF \E k \in 1..Len(list) : list[k][1] >= Len(df)
             THEN [result |-> None, index |-> idx, list |-> list]
             ELSE [result |-> Some([k \in 1..Len(list) |->
                             [title |-> df[list[k][1] + 1],
                              similarity |-> FormatPercent(list[k][2])]]),
                   index |-> idx, list |-> list]

(***************************************************************************)
(* get_recommendations(movie_title, movies_df, similarity, n): .index[0]   *)
(* of an empty match raises IndexError, and the result is None.            *)
(***************************************************************************)
\* Variant that rejects a count outside the slider's range before the lookup.
GetRecommendationsChecked(movie_title, df, sim, n) ==
    IF n \notin SliderMin..SliderMax \/ MatchIndex(df, movie_title) = {}
    THEN [result |-> None, index |-> 0 - 1, list |-> <<>>]
    ELSE Recommended(FirstIndex(MatchIndex(df, movie_title)), df, sim, n)

GetRecommendations(movie_title, df, sim, n) ==
    IF MatchIndex(df, movie_title) = {}
    THEN [result |-> None, index |-> 0 - 1, list |-> <<>>]
    ELSE Recommended(FirstIndex(MatchIndex(df, movie_title)), df, sim, n)

(***************************************************************************)
(* The search box of main(): movies_df['title'].str.contains(search_query, *)
(* case=False, na=False).  str.contains compiles its argument as a regular *)
(* expression (regex=True is the default) and keeps the titles in which    *)
(* re.search finds it, ignoring case.  Over the characters of QueryChars:  *)
(* a letter matches itself in either case, "." matches any character, and  *)
(* "(" opens a group that nothing closes, which re.compile rejects with    *)
(* re.error.                                                               *)
(***************************************************************************)
QueryChars == {"a", "b", ".", "("}

Lower(c) == IF c = "A" THEN "a" ELSE c

RegexError(pat) == \E k \in 1..Len(pat) : pat[k] = "("

ElemMatch(p, c) == IF p = "." THEN TRUE ELSE Lower(p) = Lower(c)

ReSearch(pat, title) ==
    \E off \in 0..(Len(title) - Len(pat)) :
        \A k \in 1..Len(pat) : ElemMatch(pat[k], title[off + k])

StrContains(df, pat) == SelectSeq(df, LAMBDA t : ReSearch(pat, t))

(***************************************************************************)
(* Input sets.                                                             *)
(***************************************************************************)
SeqsUpTo(S, n) == UNION {[1..m -> S] : m \in 0..n}

Titles == {<<"a">>, <<"A">>}
QueryTitles == Titles \cup {<<"b">>}
Catalogs == UNION {[1..m -> Titles] : m \in 1..MaxM}

MainTitles == {<<"a">>, <<"A", "b">>, <<"(", ".">>}
MainCatalogs == UNION {[1..m -> MainTitles] : m \in 1..MaxMainM}
Queries == SeqsUpTo(QueryChars, MaxQ)

Counts == (0 - 2)..MaxN \cup {SliderMax + 1}

(***************************************************************************)
(* The symmetric m x m matrices over Scores with 1.0 on the diagonal, as   *)
(* cosine_similarity of a set of rows with itself produces.                *)
(***************************************************************************)
Pairs(m) == {p \in (1..m) \X (1..m) : p[1] < p[2]}

MkMatrix(m, f) ==
    [i \in 1..m |-> [j \in 1..m |->
        IF i = j THEN ScoreOne ELSE f[<<Min(i, j), Max(i, j)>>]]]

SymMatrices(m) == {MkMatrix(m, f) : f \in [Pairs(m) -> Scores]}

IdentityMatrix(m) == [i \in 1..m |-> [j \in 1..m |-> IF i = j THEN ScoreOne ELSE 0]]

FileCatalogs == {[k \in 1..m |-> <<"a">>] : m \in 1..MaxFileM}
FileMatrices == {IdentityMatrix(m) : m \in 1..MaxFileM}

Sessions == 1..NSessions

(***************************************************************************)
(* Initial states.  InitLoad: a fresh process, nothing cached, the two     *)
(* pickle files present or not.  InitLoaded(df, sim): the state once       *)
(* load_data has returned df and sim to every session.                     *)
(***************************************************************************)
NoCall ==
    /\ caller = "none"
    /\ arg_title = <<>>
    /\ arg_n = 0
    /\ movie_index = 0 - 1
    /\ movies_list = <<>>
    /\ recommendations = None

NoWidgets ==
    /\ n_recommendations = SliderDefault
    /\ selected_movie = None
    /\ search_query = <<>>
    /\ filtered_movies = <<>>
    /\ message = "none"

InitLoad ==
    /\ movies_pkl \in {None} \cup {Some(c) : c \in FileCatalogs}
    /\ similarity_pkl \in {None} \cup {Some(m) : m \in FileMatrices}
    /\ cache = [present |-> FALSE, value |-> [movies_df |-> None, similarity |-> None]]
    /\ lock = 0
    /\ pc = [s \in Sessions |-> "start"]
    /\ tmp = [s \in Sessions |-> [movies_df |-> None, similarity |-> None]]
    /\ ret = [s \in Sessions |-> [movies_df |-> None, similarity |-> None]]
    /\ reads = [movies |-> 0, similarity |-> 0]
    /\ movies_df = <<>>
    /\ similarity = <<>>
    /\ NoWidgets
    /\ NoCall

InitLoaded(df, sim) ==
    LET loaded == [movies_df |-> Some(df), similarity |-> Some(sim)]
    IN  /\ movies_pkl = Some(df)
        /\ similarity_pkl = Some(sim)
        /\ cache = [present |-> TRUE, value |-> loaded]
        /\ lock = 0
        /\ pc = [s \in Sessions |-> "serving"]
        /\ tmp = [s \in Sessions |-> [movies_df |-> None, similarity |-> None]]
        /\ ret = [s \in Sessions |-> loaded]
        /\ reads = [movies |-> 1, similarity |-> 1]
        /\ movies_df = df
        /\ similarity = sim
        /\ NoWidgets
        /\ NoCall

InitRec == \E df \in Catalogs : \E sim \in SymMatrices(Len(df)) : InitLoaded(df, sim)

InitMain == \E df \in MainCatalogs : InitLoaded(df, IdentityMatrix(Len(df)))

(***************************************************************************)
(* A call of get_recommendations: the arguments, the locals and the        *)
(* returned value.                                                         *)
(***************************************************************************)
Call(who, movie_title, n) ==
    LET r == GetRecommendations(movie_title, movies_df, similarity, n)
    IN  /\ caller' = who
        /\ arg_title' = movie_title
        /\ arg_n' = n
        /\ movie_index' = r.index
        /\ movies_list' = r.list
        /\ recommendations' = r.result

(***************************************************************************)
(* get_recommendations called on the loaded corpus with any title and any  *)
(* count, run to its return statement; Forget drops the finished call's    *)
(* locals and result, after which the function can be called again.        *)
(***************************************************************************)
Recommend(movie_title, n) ==
    /\ caller = "none"
    /\ Call("direct", movie_title, n)
    /\ UNCHANGED <<diskVars, cacheVars, corpusVars, widgetVars>>

Forget ==
    /\ caller = "direct"
    /\ caller' = "none"
    /\ arg_title' = <<>>
    /\ arg_n' = 0
    /\ movie_index' = 0 - 1
    /\ movies_list' = <<>>
    /\ recommendations' = None
    /\ UNCHANGED <<diskVars, cacheVars, corpusVars, widgetVars>>

NextRec ==
    \/ \E t \in QueryTitles : \E n \in Counts : Recommend(t, n)
    \/ Forget

SpecRec == InitRec /\ [][NextRec]_vars

(***************************************************************************)
(* load_data() under @st.cache_data, called by every run of main() (each   *)
(* session runs the script in a thread of its own).  The decorator keeps   *)
(* one entry for the argument-less call: a call first reads the cache; on  *)
(* a miss it takes the entry's compute lock, reads the cache again, and    *)
(* only then runs the function body, stores what it returned and releases  *)
(* the lock.  The body reads movies_data.pkl, then similarity.pkl; any     *)
(* exception makes it return (None, None), which is a return value like    *)
(* any other and is stored.                                                *)
(***************************************************************************)
NoData == [movies_df |-> None, similarity |-> None]

CacheLookup(s) ==
    /\ pc[s] = "start"
    /\ IF cache.present
       THEN /\ ret' = [ret EXCEPT ![s] = cache.value]
            /\ pc' = [pc EXCEPT ![s] = "returned"]
       ELSE /\ pc' = [pc EXCEPT ![s] = "miss"]
            /\ ret' = ret
    /\ UNCHANGED <<cache, lock, tmp, reads>>
    /\ UNCHANGED <<diskVars, corpusVars, widgetVars, callVars>>

\* Faulty variant: the cache is not read again once the lock is held.
AcquireKeepsStale(s) ==
    /\ pc[s] = "miss"
    /\ lock = 0
    /\ lock' = s
    /\ pc' = [pc EXCEPT ![s] = "read_movies"]
    /\ UNCHANGED <<cache, ret, tmp, reads>>
    /\ UNCHANGED <<diskVars, corpusVars, widgetVars, callVars>>

AcquireLock(s) ==
    /\ pc[s] = "miss"
    /\ lock = 0
    /\ IF cache.present
       THEN /\ ret' = [ret EXCEPT ![s] = cache.value]
            /\ pc' = [pc EXCEPT ![s] = "returned"]
            /\ lock' = lock
       ELSE /\ lock' = s
            /\ pc' = [pc EXCEPT ![s] = "read_movies"]
            /\ ret' = ret
    /\ UNCHANGED <<cache, tmp, reads>>
    /\ UNCHANGED <<diskVars, corpusVars, widgetVars, callVars>>

ReadMovies(s) ==
    /\ pc[s] = "read_movies"
    /\ reads.movies < MaxReads
    /\ reads' = [reads EXCEPT !.movies = @ + 1]
    /\ IF movies_pkl.isNone
       THEN /\ tmp' = [tmp EXCEPT ![s] = NoData]
            /\ pc' = [pc EXCEPT ![s] = "store"]
       ELSE /\ tmp' = [tmp EXCEPT ![s] = [movies_df |-> movies_pkl, similarity |-> None]]
            /\ pc' = [pc EXCEPT ![s] = "read_similarity"]
    /\ UNCHANGED <<cache, lock, ret>>
    /\ UNCHANGED <<diskVars, corpusVars, widgetVars, callVars>>

ReadSimilarity(s) ==
    /\ pc[s] = "read_similarity"
    /\ reads.similarity < MaxReads
    /\ reads' = [reads EXCEPT !.similarity = @ + 1]
    /\ IF similarity_pkl.isNone
       THEN tmp' = [tmp EXCEPT ![s] = NoData]
       ELSE tmp' = [tmp EXCEPT ![s] = [movies_df |-> tmp[s].movies_df,
                                        similarity |-> similarity_pkl]]
    /\ pc' = [pc EXCEPT ![s] = "store"]
    /\ UNCHANGED <<cache, lock, ret>>
    /\ UNCHANGED <<diskVars, corpusVars, widgetVars, callVars>>

\* Faulty variant: a failed load is not stored.
StoreDataOnly(s) ==
    /\ pc[s] = "store"
    /\ cache' = IF tmp[s].movies_df.isNone
                THEN cache
                ELSE [present |-> TRUE, value |-> tmp[s]]
    /\ lock' = 0
    /\ ret' = [ret EXCEPT ![s] = tmp[s]]
    /\ pc' = [pc EXCEPT ![s] = "returned"]
    /\ UNCHANGED <<tmp, reads>>
    /\ UNCHANGED <<diskVars, corpusVars, widgetVars, callVars>>

Store(s) ==
    /\ pc[s] = "store"
    /\ cache' = [present |-> TRUE, value |-> tmp[s]]
    /\ lock' = 0
    /\ ret' = [ret EXCEPT ![s] = tmp[s]]
    /\ pc' = [pc EXCEPT ![s] = "returned"]
    /\ UNCHANGED <<tmp, reads>>
    /\ UNCHANGED <<diskVars, corpusVars, widgetVars, callVars>>

(***************************************************************************)
(* main() after load_data: st.stop() when either value is None, otherwise  *)
(* the rest of the script runs on the two values.                          *)
(***************************************************************************)
MainCheck(s) ==
    /\ pc[s] = "returned"
    /\ IF ret[s].movies_df.isNone \/ ret[s].similarity.isNone
       THEN pc' = [pc EXCEPT ![s] = "stopped"]
       ELSE pc' = [pc EXCEPT ![s] = "serving"]
    /\ UNCHANGED <<cache, lock, tmp, ret, reads>>
    /\ UNCHANGED <<diskVars, corpusVars, widgetVars, callVars>>

(***************************************************************************)
(* A widget interaction (or a page load) runs the script again from the    *)
(* top, load_data() included.                                              *)
(***************************************************************************)
Rerun(s) ==
    /\ pc[s] \in {"stopped", "serving"}
    /\ pc' = [pc EXCEPT ![s] = "start"]
    /\ UNCHANGED <<cache, lock, tmp, ret, reads>>
    /\ UNCHANGED <<diskVars, corpusVars, widgetVars, callVars>>

NextLoad ==
    \E s \in Sessions :
        \/ CacheLookup(s)
        \/ AcquireLock(s)
        \/ ReadMovies(s)
        \/ ReadSimilarity(s)
        \/ Store(s)
        \/ MainCheck(s)
        \/ Rerun(s)

SpecLoad == InitLoad /\ [][NextLoad]_vars

(***************************************************************************)
(* One run of main() in a session whose load_data() call hits the cache:   *)
(* the slider value n, the option sel picked in the first select box, the  *)
(* text q of the search box, the option k picked among the search results  *)
(* and whether the button was pressed.  An invalid regular expression      *)
(* raises re.error out of str.contains and ends the run there.             *)
(***************************************************************************)
Truthy(r) == ~r.isNone /\ Len(r.val) > 0

ClearCall ==
    /\ caller' = "none"
    /\ arg_title' = <<>>
    /\ arg_n' = 0
    /\ movie_index' = 0 - 1
    /\ movies_list' = <<>>
    /\ recommendations' = None

RunMain(n, sel, q, k, clicked) ==
    /\ sel < Len(movies_df)
    /\ n_recommendations' = n
    /\ search_query' = q
    /\ IF q # <<>> /\ RegexError(q)
       THEN /\ k = 0
            /\ ~clicked
            /\ selected_movie' = Some(movies_df[sel + 1])
            /\ filtered_movies' = <<>>
            /\ message' = "exception"
            /\ ClearCall
       ELSE LET filtered == IF q # <<>> THEN StrContains(movies_df, q) ELSE <<>>
                selected == IF Len(filtered) > 0
                            THEN filtered[k + 1]
                            ELSE movies_df[sel + 1]
            IN  /\ k < Max(Len(filtered), 1)
                /\ selected_movie' = Some(selected)
                /\ filtered_movies' = filtered
                /\ IF clicked
                   THEN /\ Call("main", selected, n)
                        /\ message' =
                              IF Truthy(GetRecommendations(selected, movies_df,
                                                           similarity, n).result)
                              THEN "success"
                              ELSE "not_found"
                   ELSE /\ ClearCall
                        /\ message' = "none"
    /\ UNCHANGED <<diskVars, cacheVars, corpusVars>>

NextMain ==
    \E n \in SliderMin..SliderMax : \E sel \in 0..(MaxMainM - 1) :
        \E q \in Queries : \E k \in 0..(MaxMainM - 1) : \E clicked \in BOOLEAN :
            RunMain(n, sel, q, k, clicked)

SpecMain == InitMain /\ [][NextMain]_vars

(***************************************************************************)
(* Properties of the cached load, under SpecLoad.                          *)
(***************************************************************************)
Loading == {s \in Sessions : pc[s] \in {"read_movies", "read_similarity", "store"}}

HasResult(s) == pc[s] \in {"returned", "serving", "stopped"}

(***************************************************************************)
(* The lifecycle of the corpus, read off the cache entry and its lock.     *)
(***************************************************************************)
CorpusState ==
    IF cache.present
    THEN IF cache.value.movies_df.isNone \/ cache.value.similarity.isNone
         THEN "Failed"
         ELSE "Ready"
    ELSE IF lock # 0 THEN "Loading" ELSE "Unloaded"

\* C6: whatever the interleaving of the sessions' load_data() calls, each
\* artifact is read at most once, at most one caller is reading at a time,
\* and every caller that has its result holds the one stored in the cache.
C6_ReadOnce ==
    /\ reads.movies <= 1
    /\ reads.similarity <= 1
    /\ Cardinality(Loading) <= 1
    /\ \A s \in Sessions : HasResult(s) => cache.present /\ ret[s] = cache.value

C6_Witness ==
    \E s, t \in Sessions :
        /\ pc[s] = "miss"
        /\ pc[t] = "store"
        /\ reads.movies = 1

\* C7: the lifecycle only moves Unloaded -> Loading -> Ready or Failed and
\* never leaves Ready or Failed; once Failed, nothing is read again, every
\* call that returns hands back (None, None), and no session goes on to
\* serve queries.
C7_OneWay ==
    [][ /\ <<CorpusState, CorpusState'>> \in
              { <<"Unloaded", "Unloaded">>, <<"Unloaded", "Loading">>,
                <<"Loading", "Loading">>, <<"Loading", "Ready">>,
                <<"Loading", "Failed">>, <<"Ready", "Ready">>,
                <<"Failed", "Failed">> }
        /\ CorpusState = "Failed" =>
              /\ reads' = reads
              /\ \A s \in Sessions :
                    (pc[s] # "returned" /\ pc'[s] = "returned") => ret'[s] = NoData
        /\ CorpusState' = "Failed" => \A s \in Sessions : pc'[s] # "serving"
      ]_vars

C7_Witness ==
    /\ CorpusState = "Failed"
    /\ reads.movies = 1
    /\ \A s \in Sessions : pc[s] = "stopped"

\* C8: whenever load_data() has handed data to a session, both values are
\* present and the matrix is square with the catalog's length; otherwise
\* neither value is visible.
C8_Consistent ==
    \A s \in Sessions :
        HasResult(s) =>
            \/ ret[s] = NoData
            \/ /\ ~ret[s].movies_df.isNone
               /\ ~ret[s].similarity.isNone
               /\ Len(ret[s].similarity.val) = Len(ret[s].movies_df.val)
               /\ \A i \in 1..Len(ret[s].similarity.val) :
                     Len(ret[s].similarity.val[i]) = Len(ret[s].movies_df.val)

(***************************************************************************)
(* Properties of get_recommendations, under SpecRec.                       *)
(***************************************************************************)
Found == caller = "direct" /\ MatchIndex(movies_df, arg_title) # {}

RankedRow == SortedReverse(Enumerate(similarity[movie_index + 1]))

Row(j) == similarity[movie_index + 1][j + 1]

Returned == {movies_list[k][1] : k \in 1..Len(movies_list)}

\* C1: for a catalog item and a count n >= 1, no returned entry comes from
\* the column of the query item itself (j == i of row i).
C1_SelfExcluded ==
    (Found /\ arg_n >= 1) => movie_index \notin Returned

\* C2: for a title that resolves to a catalog item and n >= 1 the result
\* holds exactly min(n, M-1) entries, M the catalog length.
C2_Length ==
    (Found /\ arg_n >= 1) =>
        /\ ~recommendations.isNone
        /\ Len(recommendations.val) = Min(arg_n, Len(movies_df) - 1)
        /\ Len(movies_list) = Len(recommendations.val)

C2_Witness ==
    /\ Found
    /\ Len(movies_df) = 3
    /\ arg_n = 1
    /\ ~recommendations.isNone
    /\ Len(recommendations.val) = 1

\* C3: the returned entries are in descending score order, entries of equal
\* score in ascending catalog index, and no non-query item outside the
\* result scores higher than an entry of the result.
C3_Ranked ==
    (Found /\ arg_n >= 1) =>
        /\ \A k, l \in 1..Len(movies_list) :
              k < l =>
                /\ movies_list[k][2] >= movies_list[l][2]
                /\ (movies_list[k][2] = movies_list[l][2]
                        => movies_list[k][1] < movies_list[l][1])
        /\ \A j \in 0..(Len(movies_df) - 1) :
              (j # movie_index /\ j \notin Returned) =>
                  \A k \in 1..Len(movies_list) : Row(j) <= movies_list[k][2]

\* C9 (as stated): a request whose count lies outside [3,10] is rejected
\* before any title lookup or matrix read, and returns no list.
C9_Rejected ==
    (caller = "direct" /\ arg_n \notin SliderMin..SliderMax) =>
        /\ recommendations.isNone
        /\ movie_index = 0 - 1
        /\ movies_list = <<>>

\* C9 (amended): get_recommendations makes no range check.  For a count
\* outside [3,10] the title is looked up all the same: a matching title
\* yields a list (of min(n, M-1) entries when n >= 0) taken from the row of
\* the first match, and only a title without a match yields None.
C9_NoRangeCheck ==
    (caller = "direct" /\ arg_n \notin SliderMin..SliderMax) =>
        IF MatchIndex(movies_df, arg_title) = {}
        THEN recommendations.isNone
        ELSE /\ ~recommendations.isNone
             /\ movie_index = FirstIndex(MatchIndex(movies_df, arg_title))
             /\ arg_n >= 0 => Len(recommendations.val) = Min(arg_n, Len(movies_df) - 1)

C9_Witness ==
    /\ Found
    /\ arg_n = 2
    /\ Len(movies_df) = 3
    /\ ~recommendations.isNone
    /\ Len(recommendations.val) = 2

\* C10: when several entries share the query title, the query resolves to
\* the one of lowest index: the row read is that entry's, and the item
\* dropped from the ranking as the query itself is that entry.
C10_LowestIndex ==
    (Found /\ Cardinality(MatchIndex(movies_df, arg_title)) >= 2) =>
        /\ \A j \in MatchIndex(movies_df, arg_title) : movie_index <= j
        /\ movie_index \in MatchIndex(movies_df, arg_title)
        /\ RankedRow[1][1] = movie_index

(***************************************************************************)
(* Properties of main(), under SpecMain.                                   *)
(***************************************************************************)
LiteralContains(title, sub) ==
    \E off \in 0..(Len(title) - Len(sub)) :
        \A k \in 1..Len(sub) : Lower(sub[k]) = Lower(title[off + k])

SearchResult == IF search_query = <<>> THEN movies_df ELSE filtered_movies

\* C4: the not-found outcome is reported exactly when the title has no
\* exact match in the catalog: a title without a match yields None and the
\* not-found message, and a title that is found is never reported as not
\* found, whether its ranked list is empty or not.
C4_NotFound ==
    caller = "main" =>
        /\ MatchIndex(movies_df, arg_title) = {} => recommendations.isNone
        /\ message = "not_found" <=> MatchIndex(movies_df, arg_title) = {}

\* C5: the search returns exactly the titles that contain the text as a
\* literal substring, ignoring case, in catalog order (all of them for the
\* empty text, none when nothing matches) and never ends in an error.
C5_Search ==
    /\ message # "exception"
    /\ SearchResult = SelectSeq(movies_df, LAMBDA t : LiteralContains(t, search_query))

====
